---------------------------- MODULE Spec2Model ----------------------------
(***************************************************************************)
(* A model of src/app.py, the VocalCoach API: the /analyze handler, the    *)
(* pitch aggregation of analyze_pitch and the band table of classify_voice.*)
(*                                                                         *)
(* Units.  Frequencies are exact dyadic rationals, held as integers in     *)
(* ticks of 1/12800 Hz (12800 = 128 * 100).  Pitch frames are multiples of *)
(* 1/256 Hz (50 ticks), so the mean of two frames is a whole number of     *)
(* ticks and every value is exactly representable as a binary float: the   *)
(* float arithmetic of the code is exact on them.  One hundredth of a Hz   *)
(* is 128 ticks.                                                           *)
(*                                                                         *)
(* Strings that the code transforms (str.lower) are sequences of           *)
(* one-character strings; strings that are only compared or passed on are  *)
(* TLA+ strings.                                                           *)
(***************************************************************************)
EXTENDS Integers, Sequences, FiniteSets, TLC

VARIABLES
    classify_call,  \* one call of classify_voice: its arguments and value
    pitch_call,     \* one call of analyze_pitch: its arguments and outcome
    pc,             \* per request: the handler's position
    req,            \* per request: the request received (form, file)
    input_path,     \* per request: analyze()'s local input_path
    output_path,    \* per request: analyze()'s local output_path
    loaded,         \* per request: (y, sr) as returned by librosa.load
    response,       \* per request: the (body, status) the handler returns
    calls,          \* per request: the pipeline functions invoked so far
    created,        \* per request: the paths this request wrote on disk
    fs,             \* the disk: path -> file content
    issued          \* the uuid4 values drawn so far

vars == <<classify_call, pitch_call, pc, req, input_path, output_path,
          loaded, response, calls, created, fs, issued>>

hvars == <<pc, req, input_path, output_path, loaded, response, calls,
           created, fs, issued>>

(***************************************************************************)
(* Units and characters                                                    *)
(***************************************************************************)
Hz(x) == x * 12800

Centi(x) == x * 128

UPPER == <<"A","B","C","D","E","F","G","H","I","J","K","L","M",
           "N","O","P","Q","R","S","T","U","V","W","X","Y","Z">>

LOWER == <<"a","b","c","d","e","f","g","h","i","j","k","l","m",
           "n","o","p","q","r","s","t","u","v","w","x","y","z">>

lower_identity(s) == s

\* str.lower(): every cased character is replaced by its lowercase form.
lower(s) ==
    [i \in 1..Len(s) |->
        IF \E j \in 1..Len(UPPER) : UPPER[j] = s[i]
        THEN LOWER[CHOOSE j \in 1..Len(UPPER) : UPPER[j] = s[i]]
        ELSE s[i]]

female == <<"f","e","m","a","l","e">>

male == <<"m","a","l","e">>

(***************************************************************************)
(* VoiceType and classify_voice                                            *)
(***************************************************************************)
\* The enum: member name -> value (the label sent in the response).
VoiceType ==
    [SOPRANO       |-> "Soprano",
     MEZZO_SOPRANO |-> "Mezzo-soprano",
     CONTRALTO     |-> "Kontralto",
     COUNTER_TENOR |-> "Tiz Erkek (Countertenor)",
     TENOR         |-> "Tenor",
     BARITONE      |-> "Bariton",
     BASS          |-> "Bas",
     UNKNOWN       |-> "Belirsiz"]

\* One branch of an if/elif chain: lo <= avg_pitch < hi, or <= hi when closed.
Band(lo, hi, closed, member) ==
    [lo |-> Hz(lo), hi |-> Hz(hi), closed |-> closed, member |-> member]

InBand(avg_pitch, b) ==
    /\ b.lo <= avg_pitch
    /\ IF b.closed THEN avg_pitch <= b.hi ELSE avg_pitch < b.hi

FemaleBands_SopranoOpen ==
    << Band(450, 1100, FALSE, "SOPRANO"),
       Band(350, 450, FALSE, "MEZZO_SOPRANO"),
       Band(165, 350, FALSE, "CONTRALTO") >>

\* The branches under gender == 'female', in the order tested.
FemaleBands ==
    << Band(450, 1100, TRUE, "SOPRANO"),
       Band(350, 450, FALSE, "MEZZO_SOPRANO"),
       Band(165, 350, FALSE, "CONTRALTO") >>

MaleBands_TenorTo450 ==
    << Band(450, 700, TRUE, "COUNTER_TENOR"),
       Band(165, 450, TRUE, "TENOR"),
       Band(110, 165, FALSE, "BARITONE"),
       Band(80, 110, FALSE, "BASS") >>

\* The branches under gender == 'male', in the order tested.
MaleBands ==
    << Band(450, 700, TRUE, "COUNTER_TENOR"),
       Band(165, 255, FALSE, "TENOR"),
       Band(110, 165, FALSE, "BARITONE"),
       Band(80, 110, FALSE, "BASS") >>

\* if / elif / ... / else: the first branch whose condition holds, else UNKNOWN.
FirstMatch(avg_pitch, bands) ==
    IF \E i \in 1..Len(bands) : InBand(avg_pitch, bands[i])
    THEN bands[CHOOSE i \in 1..Len(bands) :
                 /\ InBand(avg_pitch, bands[i])
                 /\ \A j \in 1..(i - 1) : ~InBand(avg_pitch, bands[j])].member
    ELSE "UNKNOWN"

classify_voice(avg_pitch, gender) ==
    LET g == lower(gender) IN
    IF g = female THEN FirstMatch(avg_pitch, FemaleBands)
    ELSE IF g = male THEN FirstMatch(avg_pitch, MaleBands)
    ELSE "UNKNOWN"

(***************************************************************************)
(* Pitch frames, analyze_pitch                                             *)
(***************************************************************************)
\* A float of the array librosa.yin returns: a number (in ticks), nan or
\* +/-inf (v is the sign).
Num(v) == [k |-> "num", v |-> v]

NaN == [k |-> "nan", v |-> 0]

PosInf == [k |-> "inf", v |-> 1]

\* np.isfinite
isfinite(f) == f.k = "num"

ge0(f) ==
    IF f.k = "num" THEN f.v >= 0
    ELSE IF f.k = "inf" THEN f.v > 0
    ELSE FALSE

\* f > 0 on floats: False for nan, True for +inf.
gt0(f) ==
    IF f.k = "num" THEN f.v > 0
    ELSE IF f.k = "inf" THEN f.v > 0
    ELSE FALSE

\* What a function call ends in, with the library calls it made on the way.
Raise(type, message, made) ==
    [ok |-> FALSE, error |-> type, message |-> message, calls |-> made]

Return(value, made) == [ok |-> TRUE, value |-> value, calls |-> made]

RECURSIVE Insert(_, _)
Insert(x, s) ==
    IF s = <<>> THEN <<x>>
    ELSE IF x <= Head(s) THEN <<x>> \o s
    ELSE <<Head(s)>> \o Insert(x, Tail(s))

RECURSIVE Sort(_)
Sort(s) == IF s = <<>> THEN <<>> ELSE Insert(Head(s), Sort(Tail(s)))

median_UpperMiddle(a) == Sort(a)[Len(a) \div 2 + 1]

\* np.median of a non-empty 1-d array of finite numbers.
median(a) ==
    LET s == Sort(a)
        n == Len(a)
    IN  IF n % 2 = 1 THEN s[(n + 1) \div 2]
        ELSE (s[n \div 2] + s[n \div 2 + 1]) \div 2

\* ndarray.tolist() of an array of finite numbers.
tolist(pitch) == [i \in 1..Len(pitch) |-> pitch[i].v]

TooShort == "Ses dosyasi cok kisa (en az 0.5 saniye)"

NoPitch == "Pitch bulunamadi"

\* librosa.yin(y, fmin=50, fmax=1000, sr=sr): the estimator is a function of
\* the samples; a buffer carries the frames the estimator gives for it.
yin(y, sr) == y.f0

too_short_Inclusive(y, sr) == 2 * y.len <= sr

\* len(y) / sr < 0.5 is 2 * len(y) < sr: the quotient of two integers below
\* 2^53 is correctly rounded, and no such quotient below 1/2 rounds to 1/2.
too_short(y, sr) == 2 * y.len < sr

\* np.median of an empty array is nan (with a warning), no exception.
analyze_pitch_NoEmptyCheck(y, sr) ==
    IF too_short(y, sr)
    THEN Raise("ValueError", TooShort, <<>>)
    ELSE LET voiced == SelectSeq(SelectSeq(yin(y, sr), isfinite), gt0) IN
         IF Len(voiced) = 0
         THEN Return(<<0, <<>>>>, <<"librosa.yin", "np.median">>)
         ELSE Return(<<median(tolist(voiced)), tolist(voiced)>>,
                     <<"librosa.yin", "np.median">>)

\* pitch[np.isfinite(pitch)] and pitch[pitch > 0] are the two SelectSeq.
analyze_pitch(y, sr) ==
    IF too_short(y, sr)
    THEN Raise("ValueError", TooShort, <<>>)
    ELSE LET voiced == SelectSeq(SelectSeq(yin(y, sr), isfinite), gt0) IN
         IF Len(voiced) = 0
         THEN Raise("ValueError", NoPitch, <<"librosa.yin">>)
         ELSE Return(<<median(tolist(voiced)), tolist(voiced)>>,
                     <<"librosa.yin", "np.median">>)

\* round(x, 2) of a float that is an exact number of ticks: the nearest
\* hundredth, the even one on a tie (correctly rounded, as CPython does).
round2(x) ==
    LET q == x \div 128
        r == x % 128
    IN  IF r < 64 THEN Centi(q)
        ELSE IF r > 64 THEN Centi(q + 1)
        ELSE IF q % 2 = 0 THEN Centi(q) ELSE Centi(q + 1)

(***************************************************************************)
(* The /analyze handler                                                    *)
(***************************************************************************)
NumRequests == 2

Requests == 1..NumRequests

\* Python's None, for a path.
None == <<>>

NoRequest == [kind |-> "none"]

NoResponse == [status |-> "none"]

\* jsonify({'status': 'error', 'message': ...}), code
Error(code, message) == [status |-> "error", code |-> code, message |-> message]

\* The success body.  processing_time, the elapsed wall-clock time, is left
\* out: it is the one field that is not a function of the request.
Success(voice_type, average_pitch, pitch_series) ==
    [status |-> "success", code |-> 200, voice_type |-> voice_type,
     average_pitch |-> average_pitch, pitch_series |-> pitch_series]

ALLOWED_EXTENSIONS ==
    { <<"a","a","c">>, <<"w","a","v">>, <<"m","p","3">>, <<"o","g","g">> }

\* A filename is stem[.ext]; ext is what follows its last dot.
Filename(stem, ext) == [stem |-> stem, dot |-> TRUE, ext |-> ext]

EmptyFilename == [stem |-> "", dot |-> FALSE, ext |-> <<>>]

allowed_file(filename) ==
    filename.dot /\ lower(filename.ext) \in ALLOWED_EXTENSIONS

generate_unique_filename_NoUuid(unique_id, original_filename) ==
    << [folder |-> "uploads", id |-> 0, stem |-> original_filename.stem,
        ext |-> original_filename.ext],
       [folder |-> "converted", id |-> 0, stem |-> original_filename.stem,
        ext |-> <<"w","a","v">>] >>

\* unique_id is uuid.uuid4().hex; secure_filename leaves the names used here
\* (ASCII letters, digits, one dot) as they are.
generate_unique_filename(unique_id, original_filename) ==
    << [folder |-> "uploads", id |-> unique_id,
        stem |-> original_filename.stem, ext |-> original_filename.ext],
       [folder |-> "converted", id |-> unique_id,
        stem |-> original_filename.stem, ext |-> <<"w","a","v">>] >>

\* Lines 160-171: the checks before anything is written.  RequestEntityTooLarge
\* is raised by the access to request.files.
Validate(q) ==
    IF q.oversize THEN Error(413, "Dosya boyutu 10MB sinirini asiyor")
    ELSE IF ~q.has_file THEN Error(400, "Dosya yuklenmedi (file alani eksik)")
    ELSE IF ~q.has_gender THEN Error(400, "Cinsiyet bilgisi eksik")
    ELSE IF q.filename = EmptyFilename THEN Error(400, "Dosya secilmedi")
    ELSE IF ~allowed_file(q.filename)
         THEN Error(400, "Desteklenmeyen dosya formati")
    ELSE NoResponse

\* ffmpeg -ar 44100
FfmpegRate == 44100

\* The file ffmpeg writes for a decodable upload, and what a failed run may
\* leave behind.
Wav(content) ==
    [valid |-> TRUE, len |-> content.len, sr |-> FfmpegRate, f0 |-> content.f0]

PartialWav == [valid |-> FALSE, len |-> 0, sr |-> FfmpegRate, f0 |-> <<>>]

FfmpegError == Error(500, "FFmpeg hatasi")

LoadError == Error(500, "librosa.load")

\* The except clauses of analyze(): ValueError -> 400, any other -> 500.
StatusOf(error) == IF error = "ValueError" THEN 400 ELSE 500

AnalysisOutcome_ClassifyRounded(y, sr, gender) ==
    LET a == analyze_pitch(y, sr) IN
    IF ~a.ok
    THEN [response |-> Error(StatusOf(a.error), a.message),
          calls |-> <<"analyze_pitch">> \o a.calls]
    ELSE LET avg_pitch == round2(a.value[1])
             pitch_series == a.value[2]
             voice_type == classify_voice(avg_pitch, gender)
         IN  [response |-> Success(VoiceType[voice_type], avg_pitch,
                                   pitch_series),
              calls |-> <<"analyze_pitch">> \o a.calls \o <<"classify_voice">>]

\* Lines 179-200: from the loaded buffer to the response.
AnalysisOutcome(y, sr, gender) ==
    LET a == analyze_pitch(y, sr) IN
    IF ~a.ok
    THEN [response |-> Error(StatusOf(a.error), a.message),
          calls |-> <<"analyze_pitch">> \o a.calls]
    ELSE LET avg_pitch == a.value[1]
             pitch_series == a.value[2]
             voice_type == classify_voice(avg_pitch, gender)
         IN  [response |-> Success(VoiceType[voice_type], round2(avg_pitch),
                                   pitch_series),
              calls |-> <<"analyze_pitch">> \o a.calls \o <<"classify_voice">>]

Write(disk, path, content) == (path :> content) @@ disk

clean_up_file_UploadOnly(disk, path) ==
    IF path # None /\ path \in DOMAIN disk /\ path.folder = "uploads"
    THEN [p \in DOMAIN disk \ {path} |-> disk[p]]
    ELSE disk

\* One iteration of clean_up_files: if path and os.path.exists(path): remove.
clean_up_file(disk, path) ==
    IF path # None /\ path \in DOMAIN disk
    THEN [p \in DOMAIN disk \ {path} |-> disk[p]]
    ELSE disk

(***************************************************************************)
(* analyze(): one request per slot r, from arrival to the return.          *)
(***************************************************************************)
\* uuid.uuid4(): a random 122-bit value, taken never to repeat one drawn before.
uuid4 == (1..NumRequests) \ issued

Finish(r, resp) ==
    /\ response' = [response EXCEPT ![r] = resp]
    /\ pc' = [pc EXCEPT ![r] = "finally"]

\* Lines 155-173: the request arrives, is validated and its paths are named.
Receive(r, inputs) ==
    /\ pc[r] = "idle"
    /\ \E q \in inputs :
        /\ req' = [req EXCEPT ![r] = q]
        /\ IF Validate(q) # NoResponse
           THEN /\ Finish(r, Validate(q))
                /\ UNCHANGED <<input_path, output_path, issued>>
           ELSE \E unique_id \in uuid4 :
                LET paths == generate_unique_filename(unique_id, q.filename) IN
                /\ issued' = issued \cup {unique_id}
                /\ input_path' = [input_path EXCEPT ![r] = paths[1]]
                /\ output_path' = [output_path EXCEPT ![r] = paths[2]]
                /\ pc' = [pc EXCEPT ![r] = "save"]
                /\ UNCHANGED response
    /\ UNCHANGED <<loaded, calls, created, fs, classify_call, pitch_call>>

\* Line 175: file.save(input_path)
Save(r) ==
    /\ pc[r] = "save"
    /\ fs' = Write(fs, input_path[r], req[r].content)
    /\ created' = [created EXCEPT ![r] = @ \cup {input_path[r]}]
    /\ pc' = [pc EXCEPT ![r] = "convert"]
    /\ UNCHANGED <<req, input_path, output_path, loaded, response, calls,
                   issued, classify_call, pitch_call>>

\* Line 176, convert_to_wav: ffmpeg reads input_path and writes output_path;
\* a run that fails raises Exception and may leave a partial file.
Convert(r) ==
    /\ pc[r] = "convert"
    /\ calls' = [calls EXCEPT ![r] = Append(@, "convert_to_wav")]
    /\ IF input_path[r] \in DOMAIN fs /\ fs[input_path[r]].decodable
       THEN /\ fs' = Write(fs, output_path[r], Wav(fs[input_path[r]]))
            /\ created' = [created EXCEPT ![r] = @ \cup {output_path[r]}]
            /\ pc' = [pc EXCEPT ![r] = "load"]
            /\ UNCHANGED response
       ELSE /\ \E partial \in BOOLEAN :
                IF partial
                THEN /\ fs' = Write(fs, output_path[r], PartialWav)
                     /\ created' = [created EXCEPT ![r] = @ \cup {output_path[r]}]
                ELSE UNCHANGED <<fs, created>>
            /\ Finish(r, FfmpegError)
    /\ UNCHANGED <<req, input_path, output_path, loaded, issued,
                   classify_call, pitch_call>>

\* Line 178: y, sr = librosa.load(output_path, sr=None)
Load(r) ==
    /\ pc[r] = "load"
    /\ calls' = [calls EXCEPT ![r] = Append(@, "librosa.load")]
    /\ IF output_path[r] \in DOMAIN fs /\ fs[output_path[r]].valid
       THEN LET w == fs[output_path[r]] IN
            /\ loaded' = [loaded EXCEPT ![r] =
                             [y |-> [len |-> w.len, f0 |-> w.f0], sr |-> w.sr]]
            /\ pc' = [pc EXCEPT ![r] = "analyze"]
            /\ UNCHANGED response
       ELSE /\ Finish(r, LoadError)
            /\ UNCHANGED loaded
    /\ UNCHANGED <<req, input_path, output_path, created, fs, issued,
                   classify_call, pitch_call>>

\* Lines 179-200: analyze_pitch, classify_voice, the response.
Analyze(r) ==
    /\ pc[r] = "analyze"
    /\ LET out == AnalysisOutcome(loaded[r].y, loaded[r].sr, req[r].gender) IN
        /\ calls' = [calls EXCEPT ![r] = @ \o out.calls]
        /\ Finish(r, out.response)
    /\ UNCHANGED <<req, input_path, output_path, loaded, created, fs, issued,
                   classify_call, pitch_call>>

\* Line 210, finally: clean_up_files(input_path, output_path), one path per
\* step; the handler returns after the second.
CleanUpInput(r) ==
    /\ pc[r] = "finally"
    /\ fs' = clean_up_file(fs, input_path[r])
    /\ pc' = [pc EXCEPT ![r] = "finally_output"]
    /\ UNCHANGED <<req, input_path, output_path, loaded, response, calls,
                   created, issued, classify_call, pitch_call>>

CleanUpOutput(r) ==
    /\ pc[r] = "finally_output"
    /\ fs' = clean_up_file(fs, output_path[r])
    /\ pc' = [pc EXCEPT ![r] = "done"]
    /\ UNCHANGED <<req, input_path, output_path, loaded, response, calls,
                   created, issued, classify_call, pitch_call>>

(***************************************************************************)
(* Inputs                                                                  *)
(***************************************************************************)
MaxFrames == 4

MaxSeries == 3

FrameValues ==
    { NaN, PosInf, Num(0), Num(-Hz(100)),
      Num(Hz(100)), Num(Hz(200)), Num(Hz(300)), Num(Hz(400)),
      Num(Hz(450) - 50) }

FrameSeqs(k) == UNION { [1..m -> FrameValues] : m \in 0..k }

upper(c) ==
    IF \E j \in 1..Len(LOWER) : LOWER[j] = c
    THEN UPPER[CHOOSE j \in 1..Len(LOWER) : LOWER[j] = c]
    ELSE c

RECURSIVE Casings(_)
Casings(w) ==
    IF w = <<>> THEN { <<>> }
    ELSE { <<c>> \o t : c \in {Head(w), upper(Head(w))}, t \in Casings(Tail(w)) }

OtherGenders ==
    { <<>>, <<"o","t","h","e","r">>,
      <<"O","T","H","E","R","_","S","T","R","I","N","G">>,
      <<"m","a","l","e","s">>, <<"m","a","l">>, <<"F","E","M","A","L","E","S">>,
      <<" ","m","a","l","e">> }

GenderSamples == Casings(female) \cup Casings(male) \cup OtherGenders

BandEdges == {80, 110, 165, 255, 350, 450, 700, 1100}

PitchGrid ==
    UNION { {Hz(b) - 1, Hz(b), Hz(b) + 1} : b \in BandEdges }
    \cup { -Hz(1), 0, Hz(200), Hz(300), Hz(2000) }

\* (len(y), sr) on both sides of half a second.
PitchArgs == { <<1, 3>>, <<2, 3>>, <<22049, 44100>>, <<22050, 44100>> }

Request(gender, filename, content) ==
    [oversize |-> FALSE, has_file |-> TRUE, has_gender |-> TRUE,
     gender |-> gender, filename |-> filename, content |-> content]

Upload(len, f0) == [decodable |-> TRUE, len |-> len, f0 |-> f0]

Corrupt == [decodable |-> FALSE, len |-> 0, f0 |-> <<>>]

a_wav == Filename("a", <<"w","a","v">>)

b_MP3 == Filename("b", <<"M","P","3">>)

Voiced250 == Upload(FfmpegRate, <<Num(Hz(400)), PosInf, Num(Hz(100))>>)

Rejected ==
    { [Request(female, a_wav, Voiced250) EXCEPT !.oversize = TRUE],
      [Request(female, a_wav, Voiced250) EXCEPT !.has_file = FALSE],
      [Request(<<>>, a_wav, Voiced250) EXCEPT !.has_gender = FALSE],
      Request(female, EmptyFilename, Voiced250),
      Request(female, Filename("a", <<"t","x","t">>), Voiced250),
      Request(female, [stem |-> "wav", dot |-> FALSE, ext |-> <<>>], Voiced250) }

\* Lengths, at FfmpegRate, on both sides of half a second.
SampleCounts ==
    { 0, FfmpegRate \div 2 - 1, FfmpegRate \div 2, FfmpegRate }

SerialInputs ==
    Rejected
    \cup { Request(female, a_wav, Corrupt), Request(female, b_MP3, Voiced250) }
    \cup { Request(g, f, Upload(n, f0)) :
             g \in { female, <<"M","A","L","E">>, <<"o","t","h","e","r">> },
             f \in { a_wav },
             n \in SampleCounts,
             f0 \in FrameSeqs(MaxSeries) }

ConcurrentInputs ==
    { [Request(female, a_wav, Voiced250) EXCEPT !.oversize = TRUE],
      Request(<<"M","A","L","E">>, a_wav, Voiced250) }
    \cup { Request(female, a_wav, c) :
             c \in { Corrupt,
                     Upload(FfmpegRate \div 2 - 1, <<Num(Hz(200))>>),
                     Upload(FfmpegRate, <<NaN, Num(0)>>),
                     Voiced250 } }

(***************************************************************************)
(* Specifications                                                          *)
(***************************************************************************)
Pending == [pending |-> TRUE]

NoClassifyCall == [avg_pitch |-> 0, gender |-> <<>>, result |-> "none"]

NoPitchCall == [y |-> [len |-> 0, f0 |-> <<>>], sr |-> 1, result |-> NoResponse]

HandlerInit ==
    /\ pc = [r \in Requests |-> "idle"]
    /\ req = [r \in Requests |-> NoRequest]
    /\ input_path = [r \in Requests |-> None]
    /\ output_path = [r \in Requests |-> None]
    /\ loaded = [r \in Requests |-> None]
    /\ response = [r \in Requests |-> NoResponse]
    /\ calls = [r \in Requests |-> <<>>]
    /\ created = [r \in Requests |-> {}]
    /\ fs = <<>>
    /\ issued = {}

\* Any number of /analyze requests in flight, their steps interleaved.
Init ==
    /\ HandlerInit
    /\ classify_call = NoClassifyCall
    /\ pitch_call = NoPitchCall

Next ==
    \E r \in Requests :
        \/ Receive(r, ConcurrentInputs)
        \/ Save(r)
        \/ Convert(r)
        \/ Load(r)
        \/ Analyze(r)
        \/ CleanUpInput(r)
        \/ CleanUpOutput(r)

Spec == Init /\ [][Next]_vars

\* One /analyze request on its own, over the wide input set.
NextSerial ==
    \/ Receive(1, SerialInputs)
    \/ Save(1)
    \/ Convert(1)
    \/ Load(1)
    \/ Analyze(1)
    \/ CleanUpInput(1)
    \/ CleanUpOutput(1)

SpecSerial == Init /\ [][NextSerial]_vars

\* classify_voice applied to drawn arguments.
InitClassify ==
    /\ HandlerInit
    /\ pitch_call = NoPitchCall
    /\ classify_call \in
         [avg_pitch : PitchGrid, gender : GenderSamples, result : {"pending"}]

ClassifyVoiceCall ==
    /\ classify_call.result = "pending"
    /\ classify_call' =
         [classify_call EXCEPT
            !.result = classify_voice(classify_call.avg_pitch,
                                      classify_call.gender)]
    /\ UNCHANGED <<pitch_call, hvars>>

NextClassify == ClassifyVoiceCall

SpecClassify == InitClassify /\ [][NextClassify]_vars

\* analyze_pitch applied to drawn arguments.
InitPitch ==
    /\ HandlerInit
    /\ classify_call = NoClassifyCall
    /\ pitch_call \in
         { [y |-> [len |-> a[1], f0 |-> f0], sr |-> a[2], result |-> Pending] :
             a \in PitchArgs, f0 \in FrameSeqs(MaxFrames) }

AnalyzePitchCall ==
    /\ pitch_call.result = Pending
    /\ pitch_call' =
         [pitch_call EXCEPT !.result = analyze_pitch(pitch_call.y, pitch_call.sr)]
    /\ UNCHANGED <<classify_call, hvars>>

NextPitch == AnalyzePitchCall

SpecPitch == InitPitch /\ [][NextPitch]_vars

(***************************************************************************)
(* Definitions used to state the properties                                *)
(***************************************************************************)
Range(s) == { s[i] : i \in DOMAIN s }

\* The band table as the specification prints it.
TableCategory(p, g) ==
    IF g = "female"
    THEN IF Hz(450) <= p /\ p <= Hz(1100) THEN "SOPRANO"
         ELSE IF Hz(350) <= p /\ p < Hz(450) THEN "MEZZO_SOPRANO"
         ELSE IF Hz(165) <= p /\ p < Hz(350) THEN "CONTRALTO"
         ELSE "UNKNOWN"
    ELSE IF g = "male"
    THEN IF Hz(450) <= p /\ p <= Hz(700) THEN "COUNTER_TENOR"
         ELSE IF Hz(165) <= p /\ p < Hz(255) THEN "TENOR"
         ELSE IF Hz(110) <= p /\ p < Hz(165) THEN "BARITONE"
         ELSE IF Hz(80) <= p /\ p < Hz(110) THEN "BASS"
         ELSE "UNKNOWN"
    ELSE "UNKNOWN"

Reordered(bands, perm) == [i \in 1..Len(bands) |-> bands[perm[i]]]

\* The indices of the frames that are finite and strictly positive, and the
\* subsequence of their values in the original order.
VoicedIndices(raw) ==
    { i \in 1..Len(raw) : raw[i].k = "num" /\ raw[i].v > 0 }

VoicedSubsequence(raw) ==
    LET idx == VoicedIndices(raw) IN
    [k \in 1..Cardinality(idx) |->
        raw[CHOOSE i \in idx : Cardinality({ j \in idx : j <= i }) = k].v]

\* The k-th smallest element of s, by counting.
KthSmallest(s, k) ==
    CHOOSE v \in Range(s) :
        /\ Cardinality({ i \in DOMAIN s : s[i] < v }) < k
        /\ k <= Cardinality({ i \in DOMAIN s : s[i] <= v })

\* m is the median of the non-empty sequence s.
IsMedian(m, s) ==
    LET n == Len(s) IN
    IF n % 2 = 1 THEN m = KthSmallest(s, (n + 1) \div 2)
    ELSE 2 * m = KthSmallest(s, n \div 2) + KthSmallest(s, n \div 2 + 1)

MedianOf(s) ==
    LET n == Len(s) IN
    IF n % 2 = 1 THEN KthSmallest(s, (n + 1) \div 2)
    ELSE (KthSmallest(s, n \div 2) + KthSmallest(s, n \div 2 + 1)) \div 2

\* c is m rounded to 2 decimal places: the nearest hundredth, the even one
\* when m lies halfway between two.
IsRoundedTo2(c, m) ==
    /\ c % 128 = 0
    /\ c - m <= 64 /\ m - c <= 64
    /\ (c - m = 64 \/ m - c = 64) => (c \div 128) % 2 = 0

Returned(r) == pc[r] = "done"

\* The handler has its response and only the finally clause is left to run.
Responded(r) == pc[r] \in {"finally", "finally_output", "done"}

\* What a request gives when it is the only one the server ever handles.
Alone(q) ==
    IF Validate(q) # NoResponse THEN Validate(q)
    ELSE IF ~q.content.decodable THEN FfmpegError
    ELSE AnalysisOutcome([len |-> q.content.len, f0 |-> q.content.f0],
                         FfmpegRate, q.gender).response

PathsOf(r) == {input_path[r], output_path[r]} \ {None}

(***************************************************************************)
(* Properties                                                              *)
(***************************************************************************)
\* C1: for every pitch and gender in {female, male}, classify_voice returns
\* the category of the band table: female [450,1100] Soprano, [350,450)
\* Mezzo-soprano, [165,350) Contralto, else Unknown; male [450,700]
\* Counter-tenor, [165,255) Tenor, [110,165) Baritone, [80,110) Bass, else
\* Unknown (so 450 is Soprano, 700 Counter-tenor, male [255,450) Unknown).
C1_BandTable ==
    classify_call.result \notin {"pending", "none"} =>
        /\ classify_call.gender = female =>
             classify_call.result = TableCategory(classify_call.avg_pitch, "female")
        /\ classify_call.gender = male =>
             classify_call.result = TableCategory(classify_call.avg_pitch, "male")

C1_Witness ==
    /\ classify_call.gender = male
    /\ classify_call.avg_pitch = Hz(700)
    /\ classify_call.result = "COUNTER_TENOR"

\* C2: the gender string is compared case-insensitively: any casing of
\* "female" or "male" selects that gender's band table, and every other
\* string gives Unknown for every pitch.
C2_GenderCaseInsensitive ==
    classify_call.result \notin {"pending", "none"} =>
        /\ classify_call.gender \in Casings(female) =>
             classify_call.result = TableCategory(classify_call.avg_pitch, "female")
        /\ classify_call.gender \in Casings(male) =>
             classify_call.result = TableCategory(classify_call.avg_pitch, "male")
        /\ classify_call.gender \notin Casings(female) \cup Casings(male) =>
             classify_call.result = "UNKNOWN"

C2_Witness ==
    /\ classify_call.gender = <<"F","e","M","a","L","e">>
    /\ classify_call.avg_pitch = Hz(350)
    /\ classify_call.result = "MEZZO_SOPRANO"

\* C3: within each gender's table the bands are pairwise disjoint: at most
\* one band condition holds for a pitch, and the category returned is the
\* one every order of testing the bands gives.
C3_BandsDisjoint ==
    classify_call.result \notin {"pending", "none"} =>
        LET p == classify_call.avg_pitch
            g == lower(classify_call.gender)
        IN  /\ \A bands \in {FemaleBands, MaleBands} :
                 Cardinality({ i \in 1..Len(bands) : InBand(p, bands[i]) }) <= 1
            /\ \A perm \in Permutations(1..Len(FemaleBands)) :
                 g = female =>
                   classify_call.result =
                     FirstMatch(p, Reordered(FemaleBands, perm))
            /\ \A perm \in Permutations(1..Len(MaleBands)) :
                 g = male =>
                   classify_call.result =
                     FirstMatch(p, Reordered(MaleBands, perm))

C3_Witness ==
    /\ classify_call.gender = female
    /\ classify_call.avg_pitch = Hz(450)
    /\ classify_call.result = "SOPRANO"
    /\ InBand(Hz(450) - 1, FemaleBands[2])

\* C4: a buffer shorter than 0.5 s makes analyze_pitch fail with the
\* insufficient-audio error whatever its frames, before the estimator runs,
\* and the request ends with HTTP 400; a buffer of exactly 0.5 s is not
\* rejected by this check.
C4_ShortAudioRejected ==
    \A r \in Requests :
        (Responded(r) /\ loaded[r] # None) =>
            LET n == loaded[r].y.len
                sr == loaded[r].sr
            IN  /\ 2 * n < sr =>
                     /\ response[r] = Error(400, TooShort)
                     /\ "analyze_pitch" \in Range(calls[r])
                     /\ "librosa.yin" \notin Range(calls[r])
                /\ 2 * n = sr =>
                     ~(response[r].status = "error"
                       /\ response[r].message = TooShort)

C4_Witness ==
    \E r \in Requests :
        /\ Returned(r)
        /\ loaded[r] # None
        /\ loaded[r].y.len = FfmpegRate \div 2 - 1
        /\ loaded[r].y.f0 = <<Num(Hz(200)), Num(Hz(300))>>
        /\ response[r] = Error(400, TooShort)

\* C5: when no frame survives filtering, analyze_pitch fails with the
\* no-pitch-detected error and the request returns only an error (HTTP 400):
\* no median is computed, classify_voice is not called, and the response
\* has no category, pitch or pitch series.
C5_NoPitchDetected ==
    \A r \in Requests :
        (/\ Responded(r)
         /\ loaded[r] # None
         /\ 2 * loaded[r].y.len >= loaded[r].sr
         /\ VoicedIndices(loaded[r].y.f0) = {}) =>
            /\ response[r] = Error(400, NoPitch)
            /\ DOMAIN response[r] = {"status", "code", "message"}
            /\ "np.median" \notin Range(calls[r])
            /\ "classify_voice" \notin Range(calls[r])

C5_Witness ==
    \E r \in Requests :
        /\ Returned(r)
        /\ loaded[r] # None
        /\ loaded[r].y.len = FfmpegRate
        /\ loaded[r].y.f0 = <<NaN, Num(0), PosInf>>
        /\ response[r] = Error(400, NoPitch)

\* C6: the pitch series of a successful response is exactly the subsequence
\* of the estimator's frames that are finite and strictly positive, in their
\* original order: every element > 0, none dropped, added or reordered.
C6_SeriesIsVoicedSubsequence ==
    \A r \in Requests :
        (Responded(r) /\ response[r].status = "success") =>
            /\ loaded[r] # None
            /\ response[r].pitch_series = VoicedSubsequence(loaded[r].y.f0)
            /\ \A i \in 1..Len(response[r].pitch_series) :
                 response[r].pitch_series[i] > 0

C6_Witness ==
    \E r \in Requests :
        /\ Returned(r)
        /\ loaded[r] # None
        /\ loaded[r].y.f0 = <<Num(Hz(300)), Num(0), Num(Hz(100))>>
        /\ response[r].status = "success"
        /\ response[r].pitch_series = <<Hz(300), Hz(100)>>

\* C7: for every non-empty voiced series, the pitch analyze_pitch returns is
\* the median: the middle element of the sorted series when the length is
\* odd, the mean of the two central elements when it is even
\* ([100, 200, 300, 400] gives 250).
C7_MedianOfVoiced ==
    LET voiced == VoicedSubsequence(pitch_call.y.f0) IN
    (/\ pitch_call.result \notin {Pending, NoResponse}
     /\ 2 * pitch_call.y.len >= pitch_call.sr
     /\ voiced # <<>>) =>
        /\ pitch_call.result.ok
        /\ IsMedian(pitch_call.result.value[1], voiced)

C7_Witness ==
    /\ pitch_call.y.f0 = <<Num(Hz(400)), Num(Hz(100)), Num(Hz(300)), Num(Hz(200))>>
    /\ pitch_call.result \notin {Pending, NoResponse}
    /\ pitch_call.result.ok
    /\ pitch_call.result.value[1] = Hz(250)

C9_RequestsIndependent ==
    /\ \A r \in Requests : Returned(r) => response[r] = Alone(req[r])
    /\ \A r, s \in Requests :
         r # s => (PathsOf(r) \cup created[r]) \cap (PathsOf(s) \cup created[s]) = {}
    /\ \A r, s \in Requests :
         (Returned(r) /\ Returned(s) /\ req[r] = req[s]) =>
             response[r] = response[s]

C9_Witness ==
    \E r, s \in Requests :
        /\ r # s
        /\ Returned(r)
        /\ response[r].status = "success"
        /\ req[s] = req[r]
        /\ pc[s] = "load"
        /\ output_path[s] \in DOMAIN fs

\* C10: in a successful result the category is classify_voice of the
\* unrounded median of the voiced series, and average_pitch is that median
\* rounded to 2 decimal places.
C10_ClassifiedUnrounded ==
    \A r \in Requests :
        (Responded(r) /\ response[r].status = "success") =>
            LET m == MedianOf(VoicedSubsequence(loaded[r].y.f0)) IN
            /\ response[r].voice_type = VoiceType[classify_voice(m, req[r].gender)]
            /\ IsRoundedTo2(response[r].average_pitch, m)

C10_Witness ==
    \E r \in Requests :
        /\ Returned(r)
        /\ req[r].gender = female
        /\ loaded[r] # None
        /\ loaded[r].y.f0 = <<Num(Hz(450) - 50)>>
        /\ response[r].status = "success"
        /\ response[r].voice_type = "Mezzo-soprano"
        /\ response[r].average_pitch = Hz(450)

=============================================================================
